---- MODULE Spec2Model ----
(***************************************************************************)
(* The corporate-registry master workflow (src/corpreg/workflow.py) and    *)
(* the enrichment script's loader (src/corpreg_enrich/run.py); the race    *)
(* collectors (src/keiba_scraper/run.py, src/scripts/keiba_scraper.py):    *)
(* the expansion of the argument into race ids and their grouping, the     *)
(* thread pool that fetches the races of a group, and the merge of a       *)
(* race's entries with its odds.                                           *)
(*                                                                         *)
(* Each program has its own variables and its own specification; a         *)
(* specification keeps the variables of the other programs at their idle   *)
(* values.                                                                 *)
(*                                                                         *)
(* Workflow state: the content found at base_file and at base_file +       *)
(* ".tmp", the position of the running script, and a record of the         *)
(* script's last call (its inputs, the content it found and how it ended), *)
(* kept so that the pre/post conditions of a call are state predicates.    *)
(***************************************************************************)
EXTENDS Integers, Sequences, FiniteSets, TLC

VARIABLES base_file, tmp_out, pc, last

\* The collectors, from the argument to the groups handed to the fetch:
\* which script runs, its argument, the calls of keibascraper.race_list it
\* made (with what each returned), the race ids, the groups, where the
\* script is and the error it ended with.
VARIABLES program, argv, listing_calls, race_ids, chunks, key_pc, key_error

\* The fetch of one group by a ThreadPoolExecutor: the call that runs it,
\* the ids it was given, the tasks submitted so far (each with its
\* position, what it has fetched and the state of its future), the tasks
\* whose future the as_completed loop has handled (in that order), the
\* lists the loop fills, the error lines logged, where the calling thread
\* is and what the call returned.
VARIABLES pool_call, group_ids, tasks, yielded, aggregate, log, pool_pc,
          returned

\* merge_race_and_odds in process_race_id: the race dict as it was loaded,
\* the same dict as it is now, the odds list, what the merge returned (or
\* raised) and where process_race_id is.
VARIABLES race_loaded, race_info, odds_info, merged, cross_pc

\* The stores of the collectors: the rows committed to /data/keiba.sqlite
\* and those of the open transaction, the Parquet file of a group of races,
\* what was stored when the run began and when the chunk began, the chunks
\* (or groups) still to process, the data of the chunk being written and
\* the table the writer is at, the error log, the position of the run and
\* its exit status.
VARIABLES db_committed, db_pending, race_file, stored_before, chunk_before,
          chunks_left, data_map, table_at, store_log, store_pc, exit_status

\* save_data of the sagikoza scripts: the script that runs, the rows of
\* /data/sagikoza.parquet, the rows it held before the call, the rows
\* fetched by the run, the rows fetched by all runs, the position.
VARIABLES script, output_file, file_before, df, fetched, save_pc

workflow_vars == <<base_file, tmp_out, pc, last>>

key_vars ==
    <<program, argv, listing_calls, race_ids, chunks, key_pc, key_error>>

pool_vars ==
    <<pool_call, group_ids, tasks, yielded, aggregate, log, pool_pc, returned>>

cross_vars == <<race_loaded, race_info, odds_info, merged, cross_pc>>

store_vars ==
    <<db_committed, db_pending, race_file, stored_before, chunk_before,
      chunks_left, data_map, table_at, store_log, store_pc, exit_status>>

save_vars == <<script, output_file, file_before, df, fetched, save_pc>>

vars ==
    <<workflow_vars, key_vars, pool_vars, cross_vars, store_vars, save_vars>>

\* What each program leaves alone.
outside_workflow == <<key_vars, pool_vars, cross_vars, store_vars, save_vars>>

outside_key ==
    <<workflow_vars, pool_vars, cross_vars, store_vars, save_vars>>

outside_pool == <<workflow_vars, key_vars, cross_vars, store_vars, save_vars>>

outside_cross == <<workflow_vars, key_vars, pool_vars, store_vars, save_vars>>

outside_store == <<workflow_vars, key_vars, pool_vars, cross_vars, save_vars>>

outside_save == <<workflow_vars, key_vars, pool_vars, cross_vars, store_vars>>

\* The workflow is not running.
WorkflowIdle ==
    /\ base_file = [kind |-> "absent", rows |-> <<>>]
    /\ tmp_out = "absent"
    /\ pc = "idle"
    /\ last = [op |-> "none", branch |-> "none", outcome |-> "none",
               new |-> <<>>, pre_base |-> [kind |-> "absent", rows |-> <<>>]]

\* No collector is running.
KeyIdle ==
    /\ program = "none"
    /\ argv = <<>>
    /\ listing_calls = <<>>
    /\ race_ids = <<>>
    /\ chunks = <<>>
    /\ key_pc = "idle"
    /\ key_error = "none"

\* No pool is running.
PoolIdle ==
    /\ pool_call = "none"
    /\ group_ids = <<>>
    /\ tasks = <<>>
    /\ yielded = <<>>
    /\ aggregate = <<>>
    /\ log = {}
    /\ pool_pc = "idle"
    /\ returned = [value |-> "none"]

\* No race is being merged with its odds.
CrossIdle ==
    /\ race_loaded = [race_id |-> 1]
    /\ race_info = [race_id |-> 1]
    /\ odds_info = <<>>
    /\ merged = [error |-> "none"]
    /\ cross_pc = "idle"

\* No collector is writing its store.
StoreIdle ==
    /\ db_committed = {}
    /\ db_pending = {}
    /\ race_file = <<>>
    /\ stored_before = [db |-> {}, race_file |-> <<>>]
    /\ chunk_before = {}
    /\ chunks_left = <<>>
    /\ data_map = <<>>
    /\ table_at = 0
    /\ store_log = {}
    /\ store_pc = "idle"
    /\ exit_status = 0

\* No sagikoza script is running.
SaveIdle ==
    /\ script = "none"
    /\ output_file = [exists |-> FALSE, rows |-> <<>>]
    /\ file_before = [exists |-> FALSE, rows |-> <<>>]
    /\ df = <<>>
    /\ fetched = <<>>
    /\ save_pc = "idle"

(***************************************************************************)
(* Bounds of the model.                                                    *)
(***************************************************************************)
\* Longest new snapshot handed to merge.
MaxNew == 2
\* Longest master the model lets merge build.
MaxRows == 3

(***************************************************************************)
(* Values.                                                                 *)
(***************************************************************************)
\* SQL NULL in the update_date column.
NullDate == 0
\* SQL NULL in a VARCHAR column (legal_form).
NullText == "NULL"
\* The content of a path: no file, a file that a failed write_parquet left
\* behind (not a readable dataset), or a parquet file holding rows.
Absent == [kind |-> "absent", rows |-> <<>>]
Partial == [kind |-> "partial", rows |-> <<>>]
Parquet(rows) == [kind |-> "parquet", rows |-> rows]

CorporateNumbers == {1, 2}
UpdateDates == {NullDate, 1, 2}
LatestFlags == {"0", "1"}

\* A row as fetched: the snapshot's columns (latest is a column of the
\* published data, read as latest = '1' by enrich_name and stat_report).
\* The rows the model fetches: corporation 1 with every update_date, once
\* also as a superseded record, and corporation 2 with one update_date.
RawRows ==
    {r \in [corporate_number : CorporateNumbers, update_date : UpdateDates,
            latest : LatestFlags] :
        \/ r.latest = "1" /\ (r.corporate_number = 1 \/ r.update_date = 1)
        \/ r.latest = "0" /\ r.corporate_number = 1 /\ r.update_date = 1}

RECURSIVE SeqsUpTo(_, _)
SeqsUpTo(S, n) ==
    IF n = 0 THEN {<<>>}
    ELSE LET shorter == SeqsUpTo(S, n - 1)
         IN  shorter \cup
             {Append(s, x) : s \in {t \in shorter : Len(t) = n - 1}, x \in S}

\* The snapshots fetch can have written to new_file.
Snapshots == SeqsUpTo(RawRows, MaxNew)

IsDataset(f) == f.kind = "parquet"

\* os.path.exists(path)
PathExists(f) == f.kind # "absent"

(***************************************************************************)
(* merge's queries.                                                        *)
(***************************************************************************)
\* SQL '=' is true only of two non-NULL equal values.
SqlEqualDate(x, y) == x # NullDate /\ y # NullDate /\ x = y

\* SELECT n.*, CAST(NULL AS VARCHAR) AS legal_form, ..., CAST(0 AS INTEGER)
\* AS reliability: the snapshot's rows, in order, with the enrichment
\* columns added empty (brand_name and brand_kana travel with legal_form).
AddEnrichmentColumns(rows) ==
    [i \in 1..Len(rows) |->
        [corporate_number |-> rows[i].corporate_number,
         update_date |-> rows[i].update_date,
         latest |-> rows[i].latest,
         legal_form |-> NullText,
         reliability |-> 0]]

\* A join on corporate_number alone.
JoinMatchKeyOnly(n, base) ==
    \E i \in 1..Len(base) : n.corporate_number = base[i].corporate_number

\* n matches a row of base on corporate_number and update_date.
JoinMatch(n, base) ==
    \E i \in 1..Len(base) :
        /\ n.corporate_number = base[i].corporate_number
        /\ SqlEqualDate(n.update_date, base[i].update_date)

\* new_data n ANTI JOIN base_data b ON n.corporate_number =
\* b.corporate_number AND n.update_date = b.update_date
AntiJoin(new, base) == SelectSeq(new, LAMBDA n : ~JoinMatch(n, base))

\* The view unique_new.
UniqueNew(new, base) == AddEnrichmentColumns(AntiJoin(new, base))

\* A query that leaves base_data out.
UnionAllOnlyNew(base, new) == UniqueNew(new, base)

\* SELECT * FROM base_data UNION ALL SELECT * FROM unique_new
UnionAll(base, new) == base \o UniqueNew(new, base)

\* A merge that puts the new snapshot first and keeps the rows of base
\* whose pair the snapshot does not have.
MergeResultNewFirst(new, base) ==
    AddEnrichmentColumns(new) \o
        SelectSeq(base, LAMBDA b :
            ~\E i \in 1..Len(new) :
                /\ new[i].corporate_number = b.corporate_number
                /\ SqlEqualDate(new[i].update_date, b.update_date))

\* What a call of merge with an existing, readable base writes to tmp_out.
MergeResult(new, base) == UnionAll(base, new)

\* A cold start that writes each distinct row once (SELECT DISTINCT).
ColdStartDistinct(new) ==
    LET first == SelectSeq([i \in 1..Len(new) |-> [row |-> new[i], at |-> i]],
                           LAMBDA x : \A j \in 1..(x.at - 1) : new[j] # x.row)
    IN  AddEnrichmentColumns([i \in 1..Len(first) |-> first[i].row])

\* What a cold-start call of merge writes to base_file.
ColdStartResult(new) == AddEnrichmentColumns(new)

(***************************************************************************)
(* The enrichment queries.  parse(name) and is_katakana are collaborators  *)
(* whose result depends on the row's name; a row's name is a function of   *)
(* its corporate_number here.                                              *)
(***************************************************************************)
\* (parse(name)).legal_form: NULL where the parser finds no legal form.
ParseLegalForm(corporate_number) ==
    IF corporate_number = 1 THEN "kabushiki" ELSE NullText

\* furigana IS NOT NULL OR is_katakana(brand_name)
HasReliableKana(corporate_number) == corporate_number = 2

\* * REPLACE ((parse(name)).legal_form::VARCHAR AS legal_form, ...)
EnrichNameResult(base) ==
    [i \in 1..Len(base) |->
        [base[i] EXCEPT !.legal_form = ParseLegalForm(base[i].corporate_number)]]

\* * REPLACE (..., CASE WHEN furigana IS NOT NULL OR is_katakana(brand_name)
\* THEN 0 ELSE 1 END AS reliability)
EnrichFuriganaResult(base) ==
    [i \in 1..Len(base) |->
        [base[i] EXCEPT !.reliability =
            IF HasReliableKana(base[i].corporate_number) THEN 0 ELSE 1]]

(***************************************************************************)
(* Writing a file.                                                         *)
(***************************************************************************)
\* What a write_parquet that raises can leave at a path that held f: the
\* old content (it failed before opening the file) or a partial file.
\* No caller removes the file afterwards.
FailedWrite(f) == {f, Partial}

\* base_file + ".tmp" is only ever written and renamed, never read: the
\* model keeps what kind of file is there, not its rows.
TmpFailedWrite(kind) == {kind, "partial"}

\* The record of a call.
Call(op, branch, outcome, new, pre_base) ==
    [op |-> op, branch |-> branch, outcome |-> outcome, new |-> new,
     pre_base |-> pre_base]

NoCall == Call("none", "none", "none", <<>>, Absent)

\* tmp_out = base_file + ".tmp"; <query>.write_parquet(tmp_out);
\* os.replace(tmp_out, base_file); then the count check, which divides by
\* the count (count_is_zero: it raises after the file was replaced).
SaveViaTmp(op, new, result, count_is_zero, next_pc) ==
    \/ /\ tmp_out' = "absent"
       /\ base_file' = Parquet(result)
       /\ last' = Call(op, "existing",
                       IF count_is_zero THEN "zero_count" ELSE "ok",
                       new, base_file)
       /\ pc' = IF count_is_zero THEN "raised" ELSE next_pc
    \/ /\ tmp_out' \in TmpFailedWrite(tmp_out)
       /\ base_file' = base_file
       /\ last' = Call(op, "existing", "write_failed", new, base_file)
       /\ pc' = "raised"
    \/ /\ tmp_out' = "parquet"
       /\ base_file' = base_file
       /\ last' = Call(op, "existing", "replace_failed", new, base_file)
       /\ pc' = "raised"

\* read_parquet(base_file) raises on a path that holds no dataset; the
\* call ends there.
ReadFails(op, new) ==
    /\ ~IsDataset(base_file)
    /\ last' = Call(op, "existing", "read_failed", new, base_file)
    /\ pc' = "raised"
    /\ UNCHANGED <<base_file, tmp_out>>

(***************************************************************************)
(* The operations.  __main__ calls fetch, merge, enrich_name,              *)
(* enrich_furigana and stat_report in this order; an exception ends the    *)
(* process.  fetch writes new_file, which merge reads: new is its content. *)
(***************************************************************************)
\* merge(new_file, base_file) without a base_file: writes base_file itself.
MergeColdStart(new) ==
    /\ pc = "start"
    /\ ~PathExists(base_file)
    /\ \/ /\ base_file' = Parquet(ColdStartResult(new))
          /\ last' = Call("merge", "cold", "ok", new, base_file)
          /\ pc' = "merged"
       \/ /\ base_file' \in FailedWrite(base_file)
          /\ last' = Call("merge", "cold", "write_failed", new, base_file)
          /\ pc' = "raised"
    /\ UNCHANGED tmp_out
    /\ UNCHANGED outside_workflow

\* merge(new_file, base_file) with a base_file.
MergeExisting(new) ==
    /\ pc = "start"
    /\ PathExists(base_file)
    /\ \/ ReadFails("merge", new)
       \/ /\ IsDataset(base_file)
          /\ Len(MergeResult(new, base_file.rows)) <= MaxRows
          /\ SaveViaTmp("merge", new, MergeResult(new, base_file.rows),
                        FALSE, "merged")
    /\ UNCHANGED outside_workflow

merge(new) == MergeColdStart(new) \/ MergeExisting(new)

\* The rows counted by enrich_name's check (latest = '1').
LatestCount(rows) == Len(SelectSeq(rows, LAMBDA r : r.latest = "1"))

\* enrich_name(base_file)
enrich_name ==
    /\ pc = "merged"
    /\ \/ ReadFails("enrich_name", <<>>)
       \/ /\ IsDataset(base_file)
          /\ SaveViaTmp("enrich_name", <<>>, EnrichNameResult(base_file.rows),
                        LatestCount(base_file.rows) = 0, "named")
    /\ UNCHANGED outside_workflow

\* enrich_furigana(base_file)
enrich_furigana ==
    /\ pc = "named"
    /\ \/ ReadFails("enrich_furigana", <<>>)
       \/ /\ IsDataset(base_file)
          /\ SaveViaTmp("enrich_furigana", <<>>,
                        EnrichFuriganaResult(base_file.rows),
                        Len(base_file.rows) = 0, "enriched")
    /\ UNCHANGED outside_workflow

\* stat_report(base_file): reads base_file and writes the three report
\* files; base_file and tmp_out are not written.
stat_report ==
    /\ pc = "enriched"
    /\ \/ ReadFails("stat_report", <<>>)
       \/ /\ IsDataset(base_file)
          /\ last' = Call("stat_report", "existing",
                          IF LatestCount(base_file.rows) = 0
                          THEN "zero_count" ELSE "ok", <<>>, base_file)
          /\ pc' = IF LatestCount(base_file.rows) = 0
                   THEN "raised" ELSE "finished"
          /\ UNCHANGED <<base_file, tmp_out>>
    /\ UNCHANGED outside_workflow

\* A loader that returns an empty DataFrame for a missing file.
LoadParquetEmptyIfMissing(path_exists) == "DataFrame"

\* load_parquet(filename) of the enrichment script, path_exists being
\* os.path.exists(full_path): the DataFrame, or FileNotFoundError raised.
LoadParquetResult(path_exists) ==
    IF path_exists THEN "DataFrame" ELSE "FileNotFoundError"

load_parquet(path_exists) ==
    /\ pc = "start"
    /\ last' = Call("load_parquet",
                    IF path_exists THEN "existing" ELSE "missing",
                    LoadParquetResult(path_exists), <<>>, base_file)
    /\ pc' = IF LoadParquetResult(path_exists) = "FileNotFoundError"
             THEN "raised" ELSE "finished"
    /\ UNCHANGED <<base_file, tmp_out>>
    /\ UNCHANGED outside_workflow

\* The process ends (normally or by the exception); the next run starts
\* from the files it left.
process_exit ==
    /\ pc \in {"raised", "finished"}
    /\ pc' = "start"
    /\ last' = NoCall
    /\ UNCHANGED <<base_file, tmp_out>>
    /\ UNCHANGED outside_workflow

Init ==
    /\ base_file = Absent
    /\ tmp_out = "absent"
    /\ pc = "start"
    /\ last = NoCall
    /\ KeyIdle
    /\ PoolIdle
    /\ CrossIdle
    /\ StoreIdle
    /\ SaveIdle

Next ==
    \/ \E new \in Snapshots : merge(new)
    \/ enrich_name
    \/ enrich_furigana
    \/ stat_report
    \/ \E path_exists \in BOOLEAN : load_parquet(path_exists)
    \/ process_exit

Spec == Init /\ [][Next]_vars

(***************************************************************************)
(* Vocabulary of the properties.                                           *)
(***************************************************************************)
Master == base_file.rows

\* The fetched columns of a master row.
Raw(r) ==
    [corporate_number |-> r.corporate_number, update_date |-> r.update_date,
     latest |-> r.latest]

RawSeq(rows) == [i \in 1..Len(rows) |-> Raw(rows[i])]

RawSet(rows) == {Raw(rows[i]) : i \in 1..Len(rows)}

\* The (entity key, version) pair of a row, and those of a dataset.
Pair(r) == <<r.corporate_number, r.update_date>>

Pairs(rows) == {Pair(rows[i]) : i \in 1..Len(rows)}

\* How many rows of the dataset carry the pair.
PairCount(rows, p) == Cardinality({i \in 1..Len(rows) : Pair(rows[i]) = p})

\* The last call was a merge that returned.
MergeReturned == last.op = "merge" /\ last.outcome = "ok"

\* ... onto a base that was there and readable.
MergedOntoBase == MergeReturned /\ IsDataset(last.pre_base)

\* ... with no base_file.
MergedColdStart == MergeReturned /\ ~PathExists(last.pre_base)

\* Per corporate_number, exactly one row is flagged latest and it has the
\* greatest update_date of the key (a missing update_date being the least).
LatestCorrect(rows) ==
    \A k \in {rows[i].corporate_number : i \in 1..Len(rows)} :
        LET of_key == {i \in 1..Len(rows) : rows[i].corporate_number = k}
            flagged == {i \in of_key : rows[i].latest = "1"}
        IN  /\ Cardinality(flagged) = 1
            /\ \A i \in flagged : \A j \in of_key :
                   rows[j].update_date <= rows[i].update_date

\* No row of the dataset lacks its update_date.
NoMissingDate(rows) == \A i \in 1..Len(rows) : rows[i].update_date # NullDate

\* The datasets that have the rows of the given one with other stored
\* latest values.
Relabelled(rows) ==
    {[i \in 1..Len(rows) |-> [rows[i] EXCEPT !.latest = f[i]]] :
        f \in [1..Len(rows) -> LatestFlags]}

(***************************************************************************)
(* C1.  After merge(new, base), every corporate_number of the master has   *)
(* exactly one row with latest = '1', the one of greatest update_date.     *)
(* Stated for the merges whose inputs already satisfy it: a new snapshot   *)
(* and a base (if any) that are each correctly flagged and have no missing *)
(* update_date.                                                            *)
(***************************************************************************)
C1_LatestRecomputed ==
    ( /\ MergeReturned
      /\ LatestCorrect(last.new)
      /\ NoMissingDate(last.new)
      /\ IsDataset(last.pre_base) =>
             /\ LatestCorrect(last.pre_base.rows)
             /\ NoMissingDate(last.pre_base.rows) )
    => LatestCorrect(Master)

(***************************************************************************)
(* C2.  Merging never loses history: a merge onto an existing master keeps *)
(* every row the master had (unchanged, in place), the master afterwards   *)
(* has every (corporate_number, update_date) pair of the new snapshot, and *)
(* no call of the workflow, however it ends, takes a pair out of a         *)
(* readable master.                                                        *)
(***************************************************************************)
C2_MergeKeepsHistory ==
    /\ MergedOntoBase =>
         /\ Len(Master) >= Len(last.pre_base.rows)
         /\ SubSeq(Master, 1, Len(last.pre_base.rows)) = last.pre_base.rows
         /\ Pairs(last.new) \subseteq Pairs(Master)
    /\ (last.op # "none" /\ IsDataset(last.pre_base)) =>
         /\ IsDataset(base_file)
         /\ Pairs(last.pre_base.rows) \subseteq Pairs(Master)

\* A merge added some rows of a two-row snapshot to a non-empty master and
\* found the others in it.
C2_Witness ==
    /\ MergedOntoBase
    /\ Len(last.pre_base.rows) > 0
    /\ Len(last.new) = 2
    /\ Len(Master) = Len(last.pre_base.rows) + 1

(***************************************************************************)
(* C3.  After merge(new, base) with a base present, no two rows of the     *)
(* master have the same (corporate_number, update_date) pair, also when    *)
(* the new snapshot has a pair twice.  Stated for a base that has no pair  *)
(* twice and for datasets with no missing update_date.                     *)
(***************************************************************************)
C3_NoDuplicatePairs ==
    ( /\ MergedOntoBase
      /\ NoMissingDate(last.new)
      /\ NoMissingDate(last.pre_base.rows)
      /\ \A p \in Pairs(last.pre_base.rows) :
             PairCount(last.pre_base.rows, p) = 1 )
    => \A i, j \in 1..Len(Master) :
           Pair(Master[i]) = Pair(Master[j]) => i = j

C5_MergeIdempotent ==
    /\ (MergedOntoBase /\ RawSeq(last.pre_base.rows) = last.new) =>
           RawSet(Master) = RawSet(last.pre_base.rows)
    /\ (MergedOntoBase /\ last.new = <<>>) => base_file = last.pre_base
    /\ (MergedOntoBase /\ last.pre_base.rows = <<>>) =>
           RawSeq(Master) = last.new

\* A two-row master with two pairs, one with a missing update_date, was
\* merged with itself.
C5_Witness ==
    /\ MergedOntoBase
    /\ RawSeq(last.pre_base.rows) = last.new
    /\ Cardinality(Pairs(last.new)) = 2
    /\ ~NoMissingDate(last.new)

(***************************************************************************)
(* C6.  The latest values of the merged master depend on the rows of new   *)
(* and base only, not on the latest values stored in base: the merge of    *)
(* the same snapshot into a base that differs in its stored latest values  *)
(* alone gives the same rows with the same latest values.                  *)
(***************************************************************************)
C6_StoredLatestIgnored ==
    MergedOntoBase =>
        \A other \in Relabelled(last.pre_base.rows) :
            RawSeq(MergeResult(last.new, other)) = RawSeq(Master)

(***************************************************************************)
(* C7.  Cold start: a merge that finds no base_file makes the master the   *)
(* rows of the new snapshot, each once, key, version and latest value      *)
(* unchanged and in the snapshot's order; merge takes this branch exactly  *)
(* when there is no file at base_file, so the file it wrote is the base of *)
(* the next merge.                                                         *)
(***************************************************************************)
C7_ColdStartCopiesSnapshot ==
    /\ MergedColdStart =>
           /\ IsDataset(base_file)
           /\ RawSeq(Master) = last.new
    /\ last.op = "merge" =>
           ((last.branch = "cold") <=> ~PathExists(last.pre_base))

\* A cold start wrote a snapshot that has the same row twice.
C7_Witness ==
    /\ MergedColdStart
    /\ Len(last.new) = 2
    /\ last.new[1] = last.new[2]

(***************************************************************************)
(* C8.  A save that fails at any step leaves the content of the canonical  *)
(* path what it was before the call, in merge (both branches),             *)
(* enrich_name and enrich_furigana.                                        *)
(***************************************************************************)
C8_FailedSaveLeavesPath ==
    ( /\ last.op \in {"merge", "enrich_name", "enrich_furigana"}
      /\ last.outcome \in {"write_failed", "replace_failed"} )
    => base_file = last.pre_base

(***************************************************************************)
(* C9.  After a save that failed while writing the temporary file, there   *)
(* is no file at base_file + ".tmp".                                       *)
(***************************************************************************)
C9_FailedWriteDiscardsTmp ==
    ( /\ last.op \in {"merge", "enrich_name", "enrich_furigana"}
      /\ last.branch = "existing"
      /\ last.outcome = "write_failed" )
    => tmp_out = "absent"

(***************************************************************************)
(* C10 as claimed.  Loading from a path that does not exist never raises:  *)
(* merge takes the cold-start branch, load_parquet returns.                *)
(***************************************************************************)
C10_MissingPathNeverRaises ==
    /\ (last.op = "merge" /\ ~PathExists(last.pre_base)) =>
           (last.branch = "cold" /\ last.outcome # "read_failed")
    /\ (last.op = "load_parquet" /\ last.branch = "missing") =>
           (last.outcome # "FileNotFoundError" /\ pc # "raised")

(***************************************************************************)
(* C10 as amended.  merge treats a base_file that does not exist as the    *)
(* cold start and does not fail reading it; load_parquet of the            *)
(* enrichment script raises FileNotFoundError for a path that does not     *)
(* exist, which ends the script, and returns the DataFrame otherwise.      *)
(***************************************************************************)
C10_MissingBaseIsColdStart ==
    /\ (last.op = "merge" /\ ~PathExists(last.pre_base)) =>
           (last.branch = "cold" /\ last.outcome # "read_failed")
    /\ (last.op = "load_parquet" /\ last.branch = "missing") =>
           (last.outcome = "FileNotFoundError" /\ pc = "raised")
    /\ (last.op = "load_parquet" /\ last.branch = "existing") =>
           (last.outcome = "DataFrame" /\ pc = "finished")

\* load_parquet was called with a path that does not exist.
C10_Witness ==
    /\ last.op = "load_parquet"
    /\ last.branch = "missing"
    /\ pc = "raised"

(***************************************************************************)
(*                                                                         *)
(* The race collectors: from the argument to the groups.                   *)
(*                                                                         *)
(* src/keiba_scraper/run.py main():  expand_race_ids, build_chunks,        *)
(* process_chunks.  src/scripts/keiba_scraper.py main():  parse_arguments  *)
(* (with expand_race_id), group_race_ids, then collect_race per group.     *)
(* The argument is the script's race_id string (sys.argv[1]).              *)
(*                                                                         *)
(***************************************************************************)
\* Longest list keibascraper.race_list returns in the model.
MaxListed == 3

\* A string is the sequence of its characters, a digit being its value.
\* An entry of a list that is not a str (group_race_ids tests for it).
NotAString == <<-1>>

IsStr(x) == x # NotAString

\* s[:n]
Prefix(s, n) == SubSeq(s, 1, IF n < Len(s) THEN n ELSE Len(s))

\* s[n:]
From(s, n) == SubSeq(s, n + 1, Len(s))

\* s[-n:]
Suffix(s, n) == SubSeq(s, IF Len(s) > n THEN Len(s) - n + 1 ELSE 1, Len(s))

\* str(i) of a natural number
RECURSIVE Str(_)
Str(i) == IF i < 10 THEN <<i>> ELSE Str(i \div 10) \o <<i % 10>>

\* s.zfill(width)
RECURSIVE Zfill(_, _)
Zfill(s, width) == IF Len(s) >= width THEN s ELSE Zfill(<<0>> \o s, width)

\* list(range(start, stop))
Range(start, stop) ==
    [i \in 1..(IF stop > start THEN stop - start ELSE 0) |-> start + i - 1]

\* The year and month of the model's race ids, its two race lists (the
\* first ten characters of a race id) and their races.
YearMonth == <<2, 0, 2, 5, 0, 8>>

RaceListId(day) == YearMonth \o <<0, day, 0, 1>>

RaceId(day, race) == RaceListId(day) \o <<0, race>>

\* The arguments the model tries: the prefixes of a race id of these
\* lengths, and a race id with one more character.
ArgumentLengths == {0, 5, 6, 7, 9, 10, 11, 12}

Arguments ==
    {Prefix(RaceId(1, 1), n) : n \in ArgumentLengths}
        \cup {RaceId(1, 1) \o <<0>>}

\* What keibascraper.race_list can return: three race ids of two race
\* lists, an id that lacks its last character, an entry that is no string.
ListedIds ==
    {RaceId(1, 1), RaceId(1, 2), RaceId(2, 1), Prefix(RaceId(1, 1), 11),
     NotAString}

\* keibascraper.race_list(year, month): it raises, or returns a list.
Listings ==
    {[raised |-> TRUE, ids |-> <<>>]}
        \cup {[raised |-> FALSE, ids |-> ids] :
                 ids \in SeqsUpTo(ListedIds, MaxListed)}

\* The record of one call of keibascraper.race_list.
ListingCall(year, month, listing) ==
    [year |-> year, month |-> month, listing |-> listing]

\* How an expansion ends: the race ids returned, or the error, and the
\* calls of race_list made on the way.
Returned(ids, calls) == [error |-> "none", ids |-> ids, calls |-> calls]

Failed(error, calls) == [error |-> error, ids |-> <<>>, calls |-> calls]

\* A comprehension over range(0, 12).
TwelveRacesFromZero(race_id) ==
    [k \in 1..Len(Range(0, 12)) |->
        race_id \o Zfill(Str(Range(0, 12)[k]), 2)]

\* [f"{race_id}{str(i).zfill(2)}" for i in range(1, 13)]
TwelveRaces(race_id) ==
    [k \in 1..Len(Range(1, 13)) |->
        race_id \o Zfill(Str(Range(1, 13)[k]), 2)]

\* An expansion that takes every other length for a year and month.
ExpandRaceIdsNoElse(base_race_id, listing) ==
    IF Len(base_race_id) = 12 THEN Returned(<<base_race_id>>, <<>>)
    ELSE IF Len(base_race_id) = 10
    THEN Returned(TwelveRaces(base_race_id), <<>>)
    ELSE LET call == ListingCall(Prefix(base_race_id, 4),
                                 From(base_race_id, 4), listing)
         IN  IF listing.raised THEN Failed("race_list raised", <<call>>)
             ELSE Returned(listing.ids, <<call>>)

\* expand_race_ids(base_race_id) of keiba_scraper/run.py; listing is what
\* keibascraper.race_list does if it is called.
ExpandRaceIds(base_race_id, listing) ==
    IF Len(base_race_id) = 12 THEN Returned(<<base_race_id>>, <<>>)
    ELSE IF Len(base_race_id) = 10
    THEN Returned(TwelveRaces(base_race_id), <<>>)
    ELSE IF Len(base_race_id) = 6
    THEN LET call == ListingCall(Prefix(base_race_id, 4),
                                 From(base_race_id, 4), listing)
         IN  IF listing.raised THEN Failed("race_list raised", <<call>>)
             ELSE Returned(listing.ids, <<call>>)
    ELSE Failed("ValueError", <<>>)

\* expand_race_id(race_id) of scripts/keiba_scraper.py
ExpandRaceId(race_id) ==
    IF Len(race_id) = 12 THEN Returned(<<race_id>>, <<>>)
    ELSE IF Len(race_id) = 10 THEN Returned(TwelveRaces(race_id), <<>>)
    ELSE Failed("ValueError", <<>>)

\* parse_arguments() of scripts/keiba_scraper.py with race_id =
\* sys.argv[1]: each error is logged and ends the process by sys.exit(1)
\* (SystemExit is not an Exception: the except clause of the 6-digit
\* branch lets the exit of the empty list pass).
ParseArguments(race_id, listing) ==
    IF Len(race_id) = 10
    THEN IF ExpandRaceId(race_id).error = "ValueError"
         THEN Failed("ValueError", <<>>)
         ELSE ExpandRaceId(race_id)
    ELSE IF Len(race_id) = 6
    THEN LET call == ListingCall(Prefix(race_id, 4), Suffix(race_id, 2),
                                 listing)
         IN  IF listing.raised
             THEN Failed("Failed to load race list", <<call>>)
             ELSE IF listing.ids = <<>>
             THEN Failed("No race IDs found", <<call>>)
             ELSE Returned(listing.ids, <<call>>)
    ELSE IF Len(race_id) = 12 THEN Returned(<<race_id>>, <<>>)
    ELSE Failed("Invalid parameter length", <<>>)

(***************************************************************************)
(* Grouping.  A dict is the sequence of its items in insertion order.      *)
(***************************************************************************)
HasKey(dict, key) == \E i \in 1..Len(dict) : dict[i].prefix = key

\* A step that starts the group's list over: dict[prefix] = [rid]
SetOnly(dict, prefix, rid) ==
    IF HasKey(dict, prefix)
    THEN [i \in 1..Len(dict) |->
             IF dict[i].prefix = prefix
             THEN [dict[i] EXCEPT !.ids = <<rid>>] ELSE dict[i]]
    ELSE Append(dict, [prefix |-> prefix, ids |-> <<rid>>])

\* if prefix not in chunks: chunks[prefix] = []
\* chunks[prefix].append(rid)          (defaultdict(list) does the same)
AppendTo(dict, prefix, rid) ==
    IF HasKey(dict, prefix)
    THEN [i \in 1..Len(dict) |->
             IF dict[i].prefix = prefix
             THEN [dict[i] EXCEPT !.ids = Append(@, rid)] ELSE dict[i]]
    ELSE Append(dict, [prefix |-> prefix, ids |-> <<rid>>])

\* build_chunks(race_ids) of keiba_scraper/run.py, from the dict built so
\* far: rid[:10] of an entry that is not a string raises TypeError.
RECURSIVE BuildChunks(_, _)
BuildChunks(ids, dict) ==
    IF ids = <<>> THEN [error |-> "none", chunks |-> dict]
    ELSE IF ~IsStr(Head(ids)) THEN [error |-> "TypeError", chunks |-> <<>>]
    ELSE BuildChunks(Tail(ids),
                     AppendTo(dict, Prefix(Head(ids), 10), Head(ids)))

\* group_race_ids(race_id_list) of scripts/keiba_scraper.py, from the
\* dict built so far: an entry that is not a string, or not of length 12,
\* is logged and skipped.
RECURSIVE GroupRaceIds(_, _)
GroupRaceIds(ids, dict) ==
    IF ids = <<>> THEN [error |-> "none", chunks |-> dict]
    ELSE IF ~IsStr(Head(ids)) THEN GroupRaceIds(Tail(ids), dict)
    ELSE IF Len(Head(ids)) # 12 THEN GroupRaceIds(Tail(ids), dict)
    ELSE GroupRaceIds(Tail(ids),
                      AppendTo(dict, Prefix(Head(ids), 10), Head(ids)))

(***************************************************************************)
(* The collectors' steps.                                                  *)
(***************************************************************************)
\* main() of keiba_scraper/run.py: race_ids = expand_race_ids(args.race_id).
\* An exception is caught by main, which logs it and ends.
expand_race_ids(base_race_id, listing) ==
    /\ key_pc = "start"
    /\ LET r == ExpandRaceIds(base_race_id, listing)
       IN  /\ program' = "keiba_scraper/run.py"
           /\ argv' = base_race_id
           /\ listing_calls' = r.calls
           /\ race_ids' = r.ids
           /\ key_error' = r.error
           /\ key_pc' = IF r.error = "none" THEN "expanded" ELSE "failed"
    /\ UNCHANGED chunks
    /\ UNCHANGED outside_key

\* chunks = build_chunks(race_ids)
build_chunks ==
    /\ key_pc = "expanded"
    /\ program = "keiba_scraper/run.py"
    /\ LET r == BuildChunks(race_ids, <<>>)
       IN  /\ chunks' = r.chunks
           /\ key_error' = r.error
           /\ key_pc' = IF r.error = "none" THEN "grouped" ELSE "failed"
    /\ UNCHANGED <<program, argv, listing_calls, race_ids>>
    /\ UNCHANGED outside_key

\* process_chunks(conn, logger, chunks): every chunk is fetched and
\* written, in the order of the dict.
process_chunks ==
    /\ key_pc = "grouped"
    /\ program = "keiba_scraper/run.py"
    /\ key_pc' = "processed"
    /\ UNCHANGED <<program, argv, listing_calls, race_ids, chunks, key_error>>
    /\ UNCHANGED outside_key

\* main() of scripts/keiba_scraper.py: race_ids = parse_arguments()
parse_arguments(race_id, listing) ==
    /\ key_pc = "start"
    /\ LET r == ParseArguments(race_id, listing)
       IN  /\ program' = "scripts/keiba_scraper.py"
           /\ argv' = race_id
           /\ listing_calls' = r.calls
           /\ race_ids' = r.ids
           /\ key_error' = r.error
           /\ key_pc' = IF r.error = "none" THEN "expanded" ELSE "failed"
    /\ UNCHANGED chunks
    /\ UNCHANGED outside_key

\* grouped_race_ids = group_race_ids(race_ids)
group_race_ids ==
    /\ key_pc = "expanded"
    /\ program = "scripts/keiba_scraper.py"
    /\ LET r == GroupRaceIds(race_ids, <<>>)
       IN  /\ chunks' = r.chunks
           /\ key_error' = r.error
           /\ key_pc' = IF r.error = "none" THEN "grouped" ELSE "failed"
    /\ UNCHANGED <<program, argv, listing_calls, race_ids>>
    /\ UNCHANGED outside_key

\* for file_id, group_ids in grouped_race_ids.items(): collect_race(...),
\* then collect_horse(...)
collect_groups ==
    /\ key_pc = "grouped"
    /\ program = "scripts/keiba_scraper.py"
    /\ key_pc' = "processed"
    /\ UNCHANGED <<program, argv, listing_calls, race_ids, chunks, key_error>>
    /\ UNCHANGED outside_key

\* The script ends; the next run starts.
key_exit ==
    /\ key_pc \in {"failed", "processed"}
    /\ program' = "none"
    /\ argv' = <<>>
    /\ listing_calls' = <<>>
    /\ race_ids' = <<>>
    /\ chunks' = <<>>
    /\ key_error' = "none"
    /\ key_pc' = "start"
    /\ UNCHANGED outside_key

KeyInit ==
    /\ WorkflowIdle
    /\ PoolIdle
    /\ CrossIdle
    /\ StoreIdle
    /\ SaveIdle
    /\ program = "none"
    /\ argv = <<>>
    /\ listing_calls = <<>>
    /\ race_ids = <<>>
    /\ chunks = <<>>
    /\ key_error = "none"
    /\ key_pc = "start"

KeyNext ==
    \/ \E base_race_id \in Arguments : \E listing \in Listings :
           expand_race_ids(base_race_id, listing)
    \/ build_chunks
    \/ process_chunks
    \/ \E race_id \in Arguments : \E listing \in Listings :
           parse_arguments(race_id, listing)
    \/ group_race_ids
    \/ collect_groups
    \/ key_exit

KeySpec == KeyInit /\ [][KeyNext]_vars

(***************************************************************************)
(* Vocabulary of the collectors' properties.                               *)
(***************************************************************************)
\* A script has taken its argument.
ExpandCalled == program # "none"

\* The expansion failed on the length of the argument.
InvalidIdentifier == key_error \in {"ValueError", "Invalid parameter length"}

\* The expansion failed because the period has no race ids.
NoKeysFound == key_error = "No race IDs found"

\* The expansion returned race_ids.
ExpandReturned ==
    \/ key_pc \in {"expanded", "grouped", "processed"}
    \/ key_error = "TypeError"

\* The grouping was called (and returned, or raised).
GroupCalled ==
    \/ key_pc \in {"grouped", "processed"}
    \/ key_error = "TypeError"

GroupReturned == key_pc \in {"grouped", "processed"}

\* The two decimal digits of i, the first a 0 below ten.
TwoDigits(i) == <<i \div 10, i % 10>>

\* The entries of a list that are race ids: strings of length 12.
IsRaceId(x) == IsStr(x) /\ Len(x) = 12

AllStrings(ids) == \A i \in 1..Len(ids) : IsStr(ids[i])

AllRaceIds(ids) == \A i \in 1..Len(ids) : IsRaceId(ids[i])

\* The groups are those of the race ids among ids: one group per first
\* ten characters, none twice, none empty, each holding the race ids of
\* its key in the order of ids, nothing else.
GroupsOfRaceIds(groups, ids) ==
    /\ \A g, h \in 1..Len(groups) :
           groups[g].prefix = groups[h].prefix => g = h
    /\ {groups[g].prefix : g \in 1..Len(groups)}
           = {Prefix(ids[i], 10) : i \in {j \in 1..Len(ids) : IsRaceId(ids[j])}}
    /\ \A g \in 1..Len(groups) :
           /\ groups[g].ids # <<>>
           /\ groups[g].ids
                  = SelectSeq(ids, LAMBDA r :
                        IsRaceId(r) /\ Prefix(r, 10) = groups[g].prefix)

(***************************************************************************)
(* C15.  The expansion of an argument of length 10 returns 12 race ids of  *)
(* length 12, the i-th being the argument followed by the two digits of i  *)
(* (01 to 12, ascending); the expansion of an argument of length 12        *)
(* returns the argument alone; neither fails.  In both scripts.            *)
(***************************************************************************)
C15_ExpandTenAndTwelve ==
    ExpandCalled =>
        /\ Len(argv) \in {10, 12} => ExpandReturned
        /\ Len(argv) = 10 =>
               /\ Len(race_ids) = 12
               /\ \A i \in 1..12 :
                      /\ Len(race_ids[i]) = 12
                      /\ race_ids[i] = argv \o TwoDigits(i)
        /\ Len(argv) = 12 => race_ids = <<argv>>

\* keiba_scraper/run.py expanded and grouped an argument of length 10.
C15_Witness ==
    /\ program = "keiba_scraper/run.py"
    /\ Len(argv) = 10
    /\ key_pc = "grouped"

(***************************************************************************)
(* C16.  The expansion fails on the length of the argument (ValueError in  *)
(* keiba_scraper/run.py, the logged "Invalid parameter length" and exit    *)
(* in scripts/keiba_scraper.py) exactly when the length is not 6, 10 or    *)
(* 12; the script that failed so has made no call of race_list and goes    *)
(* on to no grouping and no fetch.                                         *)
(***************************************************************************)
C16_InvalidLength ==
    ExpandCalled =>
        /\ InvalidIdentifier <=> Len(argv) \notin {6, 10, 12}
        /\ InvalidIdentifier =>
               /\ key_pc = "failed"
               /\ listing_calls = <<>>
               /\ race_ids = <<>>
               /\ chunks = <<>>

\* keiba_scraper/run.py was given an argument of length 11.
C16_Witness ==
    /\ program = "keiba_scraper/run.py"
    /\ Len(argv) = 11
    /\ key_pc = "failed"

(***************************************************************************)
(* C17.  For an argument of length 6 the expansion calls race_list once,   *)
(* with the first 4 characters as the year and the last 2 as the month;    *)
(* if race_list returns an empty list the expansion fails (no race ids     *)
(* found), so no script reaches the grouping or the fetch without race     *)
(* ids.                                                                    *)
(***************************************************************************)
C17_EmptyListingFails ==
    (ExpandCalled /\ Len(argv) = 6) =>
        /\ Len(listing_calls) = 1
        /\ listing_calls[1].year = Prefix(argv, 4)
        /\ listing_calls[1].month = Suffix(argv, 2)
        /\ ( /\ ~listing_calls[1].listing.raised
             /\ listing_calls[1].listing.ids = <<>> )
           => (key_pc = "failed" /\ NoKeysFound)
        /\ GroupCalled => race_ids # <<>>

(***************************************************************************)
(* C18.  The grouping of a list of race ids (strings of length 12)         *)
(* returns, and partitions the list: every occurrence of a race id is in   *)
(* exactly one group, the one keyed by its first 10 characters; a group    *)
(* holds its race ids in the order of the list; no group is empty, no race *)
(* id is added or lost.  In both scripts.                                  *)
(***************************************************************************)
C18_GroupPartitions ==
    /\ (ExpandReturned /\ key_pc # "expanded" /\ AllRaceIds(race_ids))
           => GroupReturned
    /\ (GroupReturned /\ AllRaceIds(race_ids))
           => GroupsOfRaceIds(chunks, race_ids)

\* The race ids of two race lists, those of the first with the other's
\* between them, were grouped.
C18_Witness ==
    /\ GroupReturned
    /\ race_ids = <<RaceId(1, 1), RaceId(2, 1), RaceId(1, 2)>>
    /\ Len(chunks) = 2

(***************************************************************************)
(* C19.  The grouping skips every entry whose length is not 12 (it is in   *)
(* no group and makes no key) and does not fail on it; the entries of      *)
(* length 12 of the same list are grouped.  Stated for lists of strings.   *)
(***************************************************************************)
C19_NonTwelveSkipped ==
    (GroupCalled /\ AllStrings(race_ids)) =>
        /\ GroupReturned
        /\ GroupsOfRaceIds(chunks, race_ids)

(***************************************************************************)
(*                                                                         *)
(* The fetch of a group by a thread pool.                                  *)
(*                                                                         *)
(* collect_race and collect_horse of src/scripts/keiba_scraper.py and      *)
(* fetch_chunk_data of src/keiba_scraper/run.py: the calling thread        *)
(* submits a task per id to a ThreadPoolExecutor, takes the futures as     *)
(* they complete and leaves the with block, which waits for the workers.   *)
(* The scripts call them one after the other, never two at a time.         *)
(* A task is process_race_id, process_horse_id or                          *)
(* load_all_data_for_race_id; each of its keibascraper.load calls is a     *)
(* step that returns or raises.  The result of a race has one row here.    *)
(*                                                                         *)
(***************************************************************************)
\* Most ids of a group.
MaxGroup == 3

\* max_workers of the executor (10 in collect_race and collect_horse, 6 in
\* fetch_chunk_data), scaled to the groups of the model.
max_workers == 2

PoolCalls == {"collect_race", "collect_horse", "fetch_chunk_data"}

\* The ids handed to the call: n races of a race list, or n horses.
HorseId(i) == <<9, i>>

GroupIds(call, n) ==
    [i \in 1..n |-> IF call = "collect_horse" THEN HorseId(i) ELSE RaceId(1, i)]

\* The lists the as_completed loop fills: races in collect_race, the five
\* lists of data_map in fetch_chunk_data, none in collect_horse.
Tables(call) ==
    IF call = "collect_race" THEN {"races"}
    ELSE IF call = "fetch_chunk_data"
    THEN {"race", "result", "horse", "history", "odds"}
    ELSE {}

\* executor.submit(task, rid): the work item, queued, and its future.
\* rows is what the task's load of the result gave, got the lists the task
\* has data for, future the state of its future, faults the loads and
\* payloads that failed in it.
NewTask(rid) ==
    [rid |-> rid, at |-> "queued", rows |-> "none", got |-> {},
     future |-> "pending", faults |-> 0]

\* The first keibascraper.load of a task.
FirstStep(call) == IF call = "collect_horse" THEN "horse" ELSE "result"

\* How a keibascraper.load ends: it returns, it raises, or (the result) it
\* returns a payload that lacks a field the task needs ('entry' in
\* process_race_id, row["horse_id"] in load_all_data_for_race_id).
Outcomes(step) ==
    IF step = "result" THEN {"ok", "raise", "malformed"} ELSE {"ok", "raise"}

\* A line of logger.error / logging.error: the id it names and where it
\* was logged.
Entry(rid, what) == [rid |-> rid, what |-> what]

\* A step of a task: the task after it and the lines it logged.
Step(task, logged) == [task |-> task, logged |-> logged]

\* The task ends: its future gets the value, None, or the exception.
Done(t, future) == [t EXCEPT !.at = "done", !.future = future]

Fault(t) == [t EXCEPT !.faults = @ + 1]

\* process_race_id(race_id): any exception is logged and gives None.
ProcessRaceId(t, outcome) ==
    IF outcome = "raise"
    THEN Step(Done([Fault(t) EXCEPT !.got = {}], "None"),
              {Entry(t.rid, "processing")})
    ELSE IF t.at = "result"
    THEN Step([t EXCEPT !.at = "odds", !.rows = outcome], {})
    ELSE IF t.rows = "malformed"
    THEN Step(Done(Fault(t), "None"), {Entry(t.rid, "processing")})
    ELSE Step(Done([t EXCEPT !.got = {"races"}], "value"), {})

\* process_horse_id(horse_id): the horse is loaded and saved; any
\* exception (of the load or of the write) is logged; the function returns
\* None.
ProcessHorseId(t, outcome) ==
    IF outcome = "raise"
    THEN Step(Done(Fault(t), "None"), {Entry(t.rid, "processing")})
    ELSE Step(Done([t EXCEPT !.got = {"saved"}], "None"), {})

\* load_all_data_for_race_id(race_id, logger): a result that fails gives
\* five empty lists; odds or a horse that fail are logged and left out; a
\* row without horse_id raises KeyError out of the task.
LoadAllDataForRaceId(t, outcome) ==
    IF t.at = "result"
    THEN IF outcome = "raise"
         THEN Step(Done(Fault(t), "value"), {Entry(t.rid, "result")})
         ELSE Step([t EXCEPT !.at = "odds", !.rows = outcome,
                             !.got = {"race", "result"}], {})
    ELSE IF t.at = "odds"
    THEN LET u == IF outcome = "raise" THEN Fault(t)
                  ELSE [t EXCEPT !.got = @ \cup {"odds"}]
             logged == IF outcome = "raise"
                       THEN {Entry(t.rid, "odds")} ELSE {}
         IN  IF t.rows = "malformed"
             THEN Step(Done([Fault(u) EXCEPT !.got = {}], "raised"), logged)
             ELSE Step([u EXCEPT !.at = "horse"], logged)
    ELSE IF outcome = "raise"
    THEN Step(Done(Fault(t), "value"), {Entry(t.rid, "horse")})
    ELSE Step(Done([t EXCEPT !.got = @ \cup {"horse", "history"}], "value"),
              {})

\* The task of the call.
TaskStep(call, t, outcome) ==
    IF call = "collect_race" THEN ProcessRaceId(t, outcome)
    ELSE IF call = "collect_horse" THEN ProcessHorseId(t, outcome)
    ELSE LoadAllDataForRaceId(t, outcome)

\* The tasks a worker thread is running: each is in a keibascraper.load.
Running(ts) == {i \in 1..Len(ts) : ts[i].at \in {"result", "odds", "horse"}}

\* An executor that starts a thread for every work item.
WorkerAlwaysFree(ts) == TRUE

\* The executor has a thread for a queued work item: an idle one, or a
\* new one while it has fewer than max_workers.
WorkerFree(ts) == Cardinality(Running(ts)) < max_workers

\* A loop that keeps the last future's data only: data_map[t] = data
ExtendKeepLast(lists, rid, got) ==
    [t \in DOMAIN lists |-> IF t \in got THEN <<rid>> ELSE lists[t]]

\* races.append(result), data_map[t].extend(data): the records of a task
\* (named by the task's id) go to the end of each list it has data for.
Extend(lists, rid, got) ==
    [t \in DOMAIN lists |-> IF t \in got THEN Append(lists[t], rid)
                                        ELSE lists[t]]

\* A loop that starts the lists over when a future brings nothing.
CollectedOrReset(lists, t) ==
    IF t.future = "value" /\ t.got # {} THEN Extend(lists, t.rid, t.got)
    ELSE [x \in DOMAIN lists |-> <<>>]

\* The body of the as_completed loop for the future of t: the lists after.
Collected(lists, t) ==
    IF t.future = "value" THEN Extend(lists, t.rid, t.got) ELSE lists

\* What the body logs: the exception of future.result(), which the loops
\* of fetch_chunk_data and collect_horse catch.
CollectLogged(t) ==
    IF t.future = "raised" THEN {Entry(t.rid, "future")} ELSE {}

\* A loop that ends at the first future that brought nothing.
LoopDoneAtFailure(ts, done) ==
    \/ Len(done) = Len(ts)
    \/ \E k \in 1..Len(done) : ts[done[k]].future # "value"

\* as_completed(futures) is exhausted: every future was yielded.
LoopDone(ts, done) == Len(done) = Len(ts)

\* executor.shutdown(wait=True) at the end of the with block: the worker
\* threads have ended, every work item was run.
Joined(ts) == \A i \in 1..Len(ts) : ts[i].at = "done"

\* entry.get("horse_id") of the entry of a race: race i has horse i.
HorseOfRace(rid) == HorseId(rid[Len(rid)])

\* What the call returns: collect_race the horse ids of the races it has,
\* fetch_chunk_data its data_map, collect_horse nothing.
ReturnValue(call, lists) ==
    IF call = "collect_race"
    THEN [value |-> "list", horse_ids |->
             {HorseOfRace(lists["races"][k]) : k \in 1..Len(lists["races"])}]
    ELSE IF call = "fetch_chunk_data"
    THEN [value |-> "data_map", data_map |-> lists]
    ELSE [value |-> "None"]

(***************************************************************************)
(* The steps of the pool.                                                  *)
(***************************************************************************)
\* The call, with its ids: the lists are empty, no task is submitted.
pool_call_begins(call, n) ==
    /\ pool_pc = "start"
    /\ pool_call' = call
    /\ group_ids' = GroupIds(call, n)
    /\ tasks' = <<>>
    /\ yielded' = <<>>
    /\ aggregate' = [t \in Tables(call) |-> <<>>]
    /\ log' = {}
    /\ pool_pc' = IF n = 0 THEN "collecting" ELSE "submitting"
    /\ UNCHANGED returned
    /\ UNCHANGED outside_pool

\* {executor.submit(task, rid): rid for rid in ids}: the next id's task.
submit ==
    /\ pool_pc = "submitting"
    /\ tasks' = Append(tasks, NewTask(group_ids[Len(tasks) + 1]))
    /\ pool_pc' = IF Len(tasks') = Len(group_ids)
                  THEN "collecting" ELSE "submitting"
    /\ UNCHANGED <<pool_call, group_ids, yielded, aggregate, log, returned>>
    /\ UNCHANGED outside_pool

\* A worker thread takes the oldest queued work item and calls its first
\* keibascraper.load.
worker_takes_task(i) ==
    /\ tasks[i].at = "queued"
    /\ \A j \in 1..(i - 1) : tasks[j].at # "queued"
    /\ WorkerFree(tasks)
    /\ tasks' = [tasks EXCEPT ![i].at = FirstStep(pool_call)]
    /\ UNCHANGED <<pool_call, group_ids, yielded, aggregate, log, pool_pc,
                   returned>>
    /\ UNCHANGED outside_pool

\* The keibascraper.load a task is in ends; the task goes on to its next
\* load or ends.
load_ends(i, outcome) ==
    /\ i \in Running(tasks)
    /\ outcome \in Outcomes(tasks[i].at)
    /\ LET step == TaskStep(pool_call, tasks[i], outcome)
       IN  /\ tasks' = [tasks EXCEPT ![i] = step.task]
           /\ log' = log \cup step.logged
    /\ UNCHANGED <<pool_call, group_ids, yielded, aggregate, pool_pc,
                   returned>>
    /\ UNCHANGED outside_pool

\* for future in as_completed(futures): the body, for a completed future
\* that was not yielded yet.
future_collected(i) ==
    /\ pool_pc = "collecting"
    /\ ~LoopDone(tasks, yielded)
    /\ tasks[i].at = "done"
    /\ \A k \in 1..Len(yielded) : yielded[k] # i
    /\ yielded' = Append(yielded, i)
    /\ aggregate' = Collected(aggregate, tasks[i])
    /\ log' = log \cup CollectLogged(tasks[i])
    /\ UNCHANGED <<pool_call, group_ids, tasks, pool_pc, returned>>
    /\ UNCHANGED outside_pool

\* The loop is over; the with block ends, shutdown(wait=True) returning
\* when the workers have run every work item, and the call returns.
pool_call_returns ==
    /\ pool_pc = "collecting"
    /\ LoopDone(tasks, yielded)
    /\ Joined(tasks)
    /\ returned' = ReturnValue(pool_call, aggregate)
    /\ pool_pc' = "returned"
    /\ UNCHANGED <<pool_call, group_ids, tasks, yielded, aggregate, log>>
    /\ UNCHANGED outside_pool

\* The script goes on to its next call.
pool_next_call ==
    /\ pool_pc = "returned"
    /\ pool_call' = "none"
    /\ group_ids' = <<>>
    /\ tasks' = <<>>
    /\ yielded' = <<>>
    /\ aggregate' = <<>>
    /\ log' = {}
    /\ returned' = [value |-> "none"]
    /\ pool_pc' = "start"
    /\ UNCHANGED outside_pool

PoolInit ==
    /\ WorkflowIdle
    /\ KeyIdle
    /\ CrossIdle
    /\ StoreIdle
    /\ SaveIdle
    /\ pool_call = "none"
    /\ group_ids = <<>>
    /\ tasks = <<>>
    /\ yielded = <<>>
    /\ aggregate = <<>>
    /\ log = {}
    /\ returned = [value |-> "none"]
    /\ pool_pc = "start"

PoolNext ==
    \/ \E call \in PoolCalls : \E n \in 0..MaxGroup :
           pool_call_begins(call, n)
    \/ submit
    \/ \E i \in 1..Len(tasks) : worker_takes_task(i)
    \/ \E i \in 1..Len(tasks) : \E outcome \in {"ok", "raise", "malformed"} :
           load_ends(i, outcome)
    \/ \E i \in 1..Len(tasks) : future_collected(i)
    \/ pool_call_returns
    \/ pool_next_call

\* The threads of the process are scheduled and a keibascraper.load
\* returns or raises: a step that can be taken is taken.
PoolSpec == PoolInit /\ [][PoolNext]_vars /\ WF_vars(PoolNext)

(***************************************************************************)
(* Vocabulary of the pool's properties.                                    *)
(***************************************************************************)
PoolReturned == pool_pc = "returned"

TaskIds == 1..Len(tasks)

\* How often x is in the list.
Count(list, x) == Cardinality({k \in 1..Len(list) : list[k] = x})

\* The future of task i has completed, with a value or an exception.
Completed(i) ==
    /\ i \in TaskIds
    /\ tasks[i].at = "done"
    /\ tasks[i].future \in {"value", "None", "raised"}

\* The as_completed loop has handled the future of task i.
Yielded(i) == \E k \in 1..Len(yielded) : yielded[k] = i

\* The lists task i brings data for, if its future has a value.
Brought(i) == IF tasks[i].future = "value" THEN tasks[i].got ELSE {}

\* The error lines that name the id of task i.
LinesNaming(i) == {e \in log : e.rid = tasks[i].rid}

\* Everything a task of the call fetches when nothing fails.
FullRecord(call) ==
    IF call = "collect_horse" THEN {"saved"} ELSE Tables(call)

\* The failure entries in what the call returned.
ReturnedFailures ==
    IF "failures" \in DOMAIN returned THEN returned.failures ELSE <<>>

\* Exactly one task met a failure, a single one, and ended without data.
OneTaskFailed(f) ==
    /\ f \in TaskIds
    /\ tasks[f].faults = 1
    /\ tasks[f].got = {}
    /\ \A i \in TaskIds \ {f} : tasks[i].faults = 0

(***************************************************************************)
(* C11.  The pool has one task per id of the group, in the order of the    *)
(* ids, and at every moment at most max_workers tasks are running.  A      *)
(* running task is in one keibascraper.load at a time (the loads of the    *)
(* horses of a race are steps of the race's task in fetch_chunk_data, and  *)
(* tasks of collect_horse's own pool in scripts/keiba_scraper.py), so at   *)
(* most max_workers loads are in flight.                                   *)
(***************************************************************************)
C11_BoundedPool ==
    /\ Cardinality(Running(tasks)) <= max_workers
    /\ Len(tasks) <= Len(group_ids)
    /\ \A i \in TaskIds : tasks[i].rid = group_ids[i]
    /\ pool_pc \in {"collecting", "returned"} => Len(tasks) = Len(group_ids)
    /\ \A i, j \in TaskIds : tasks[i].rid = tasks[j].rid => i = j

\* fetch_chunk_data has max_workers tasks running, one of them loading a
\* horse, and a task waiting in the queue.
C11_Witness ==
    /\ pool_call = "fetch_chunk_data"
    /\ Cardinality(Running(tasks)) = max_workers
    /\ \E i \in TaskIds : tasks[i].at = "horse"
    /\ \E i \in TaskIds : tasks[i].at = "queued"

(***************************************************************************)
(* C12 as claimed.  If exactly one task of the group fails, the call       *)
(* returns the records of the other tasks and exactly one failure entry,   *)
(* which names the id of the failed task.                                  *)
(***************************************************************************)
C12_ReturnsFailureEntry ==
    PoolReturned =>
        \A f \in TaskIds :
            OneTaskFailed(f) =>
                /\ \A i \in TaskIds \ {f} : \A t \in DOMAIN aggregate :
                       Count(aggregate[t], tasks[i].rid) = 1
                /\ Len(ReturnedFailures) = 1
                /\ ReturnedFailures[1].rid = tasks[f].rid

(***************************************************************************)
(* C12 as amended.  A failure is an error line in the log, not a part of   *)
(* what the call returns.  When the call returns, the lists hold the       *)
(* whole record of every task that met no failure, once, whatever          *)
(* happened to the other tasks; every failure a task met is one error      *)
(* line naming the task's id; so if exactly one task failed, the lists     *)
(* hold the records of all the others and the log has exactly one line,    *)
(* naming the failed id.                                                   *)
(***************************************************************************)
C12_FailureIsolated ==
    PoolReturned =>
        /\ ReturnedFailures = <<>>
        /\ \A i \in TaskIds :
               /\ Cardinality(LinesNaming(i)) = tasks[i].faults
               /\ tasks[i].faults = 0 =>
                      /\ tasks[i].got = FullRecord(pool_call)
                      /\ \A t \in DOMAIN aggregate :
                             Count(aggregate[t], tasks[i].rid) = 1
        /\ \A f \in TaskIds :
               OneTaskFailed(f) =>
                   /\ Cardinality(log) = 1
                   /\ \A e \in log : e.rid = tasks[f].rid
                   /\ \A t \in DOMAIN aggregate :
                          Len(aggregate[t]) = Len(tasks) - 1

\* collect_race returned for three races of which the first failed.
C12_Witness ==
    /\ PoolReturned
    /\ pool_call = "collect_race"
    /\ Len(tasks) = 3
    /\ OneTaskFailed(1)

(***************************************************************************)
(* C13.  The pool drains: a call that has begun returns, and it returns   *)
(* only when there is a task for every id, every task has completed (with  *)
(* a value, None or an exception) and the loop has handled every future,   *)
(* the futures of the tasks that came after a failed one included.  So     *)
(* every task submitted completes.                                         *)
(***************************************************************************)
C13_PoolDrains ==
    /\ [](PoolReturned =>
            /\ Len(tasks) = Len(group_ids)
            /\ \A i \in TaskIds : Completed(i) /\ Yielded(i))
    /\ (pool_pc \in {"submitting", "collecting"}) ~> PoolReturned

\* The call returned; the first future the loop handled was a failed
\* task's, the last one a task's that brought data.
C13_Witness ==
    /\ PoolReturned
    /\ Len(tasks) = 3
    /\ tasks[yielded[1]].future # "value"
    /\ Brought(yielded[3]) # {}

(***************************************************************************)
(* C14.  The lists are filled one completed task at a time: a step that    *)
(* changes them is the loop handling one future, and adds that task's      *)
(* record to the end of each list the task has data for.  At every moment  *)
(* each list holds, once each, the records of the tasks handled so far     *)
(* that have data for it and nothing else, so that at the return the       *)
(* lists hold each successful task's record whole and once, in whatever    *)
(* order the tasks completed.                                              *)
(***************************************************************************)
C14_AggregateSerialized ==
    /\ [](pool_call # "none" =>
            \A t \in DOMAIN aggregate :
                /\ \A i \in TaskIds :
                       Count(aggregate[t], tasks[i].rid)
                           = IF Yielded(i) /\ t \in Brought(i) THEN 1 ELSE 0
                /\ Len(aggregate[t])
                       = Cardinality({i \in TaskIds :
                                         Yielded(i) /\ t \in Brought(i)}))
    /\ [][(pool_pc = "collecting" /\ aggregate' # aggregate) =>
            \E i \in TaskIds :
                /\ Completed(i)
                /\ ~Yielded(i)
                /\ yielded' = Append(yielded, i)
                /\ \A t \in DOMAIN aggregate :
                       aggregate'[t] = IF t \in Brought(i)
                                       THEN aggregate[t] \o <<tasks[i].rid>>
                                       ELSE aggregate[t]]_vars
    /\ [](PoolReturned => \A i \in TaskIds : Yielded(i))

\* fetch_chunk_data returned; the second task's future was handled before
\* the first's, both with data, the first without odds.
C14_Witness ==
    /\ PoolReturned
    /\ pool_call = "fetch_chunk_data"
    /\ Len(tasks) >= 2
    /\ yielded[1] = 2
    /\ yielded[2] = 1
    /\ Brought(2) = Tables("fetch_chunk_data")
    /\ Brought(1) = Tables("fetch_chunk_data") \ {"odds"}

(***************************************************************************)
(*                                                                         *)
(* The merge of a race's entries with its odds.                            *)
(*                                                                         *)
(* merge_race_and_odds(race, odds) of src/scripts/keiba_scraper.py (the    *)
(* same function is in src/batch_scripts/keibascraper.py), called by       *)
(* process_race_id with what ks.load gave.  A dict is the function from    *)
(* its keys to its values.                                                 *)
(*                                                                         *)
(***************************************************************************)
\* Longest entry list of a race, longest odds list.
MaxEntries == 2
MaxOdds == 2

\* None, as the result of entry.get('id') for an entry without 'id'.
NoneValue == -1

\* The ids of the model: 0 is an id that is false in Python.
EntryIds == {0, 1, 2}

\* The entries of a race: with an id or without, and a field of their own.
Entries ==
    {[id |-> i, a |-> x] : i \in EntryIds, x \in {"x", "y"}}
        \cup {[a |-> x] : x \in {"x", "y"}}

\* The odds of an entry: with an id and a field of their own, with an id
\* and a value for the entry's field, or without id.
OddsItems ==
    {[id |-> i, b |-> "z"] : i \in EntryIds}
        \cup {[id |-> 1, a |-> "w"], [b |-> "z"]}

\* What ks.load('result', race_id) gives: a dict with its 'entry' list, or
\* one without the key.
Races ==
    {[race_id |-> 1, entry |-> e] : e \in SeqsUpTo(Entries, MaxEntries)}
        \cup {[race_id |-> 1]}

\* What ks.load('odds', race_id) gives.
OddsLists == SeqsUpTo(OddsItems, MaxOdds)

\* d.get(key), None when the key is missing.
Get(d, key) == IF key \in DOMAIN d THEN d[key] ELSE NoneValue

\* bool(v) of an id or None
TruthyOrNone(v) == v # 0

Truthy(v) == v # NoneValue /\ v # 0

\* {item['id']: item for item in odds if 'id' in item}: the keys of the
\* dict and, for a key, its item (the last one of the list with that id).
LookupKeys(items) ==
    {items[k].id : k \in {j \in 1..Len(items) : "id" \in DOMAIN items[j]}}

Lookup(items, id) ==
    LET at == {k \in 1..Len(items) :
                  "id" \in DOMAIN items[k] /\ items[k].id = id}
    IN  items[CHOOSE k \in at : \A j \in at : j <= k]

\* {**entry, **item}
DictUnion(entry, item) ==
    [key \in DOMAIN entry \cup DOMAIN item |->
        IF key \in DOMAIN item THEN item[key] ELSE entry[key]]

\* The loop over race['entry']: merged_entries.
RECURSIVE MergedEntries(_, _)
MergedEntries(entries, items) ==
    IF entries = <<>> THEN <<>>
    ELSE LET entry == Head(entries)
             entry_id == Get(entry, "id")
             rest == MergedEntries(Tail(entries), items)
         IN  IF ~Truthy(entry_id) THEN rest
             ELSE IF entry_id \in LookupKeys(items)
             THEN <<DictUnion(entry, Lookup(items, entry_id))>> \o rest
             ELSE <<entry>> \o rest

\* process_race_id: race_info = ks.load('result', race_id); odds_info =
\* ks.load('odds_info', race_id)
load_race_and_odds(loaded_race, loaded_odds) ==
    /\ cross_pc = "start"
    /\ race_loaded' = loaded_race
    /\ race_info' = loaded_race
    /\ odds_info' = loaded_odds
    /\ cross_pc' = "loaded"
    /\ UNCHANGED merged
    /\ UNCHANGED outside_cross

\* A merge that returns a copy of the race and leaves the race alone.
merge_race_and_odds_copy ==
    /\ cross_pc = "loaded"
    /\ IF "entry" \notin DOMAIN race_info
       THEN /\ merged' = [error |-> "ValueError"]
            /\ cross_pc' = "raised"
       ELSE /\ merged' =
                   [error |-> "none",
                    race |-> [race_info EXCEPT
                        !.entry = MergedEntries(race_info.entry, odds_info)]]
            /\ cross_pc' = "returned"
    /\ UNCHANGED <<race_loaded, race_info, odds_info>>
    /\ UNCHANGED outside_cross

\* merge_race_and_odds(race, odds): ValueError without the 'entry' key;
\* otherwise race["entry"] is set to the merged entries and race returned.
merge_race_and_odds ==
    /\ cross_pc = "loaded"
    /\ IF "entry" \notin DOMAIN race_info
       THEN /\ merged' = [error |-> "ValueError"]
            /\ cross_pc' = "raised"
            /\ UNCHANGED race_info
       ELSE /\ race_info' =
                   [race_info EXCEPT
                       !.entry = MergedEntries(race_info.entry, odds_info)]
            /\ merged' = [error |-> "none", race |-> race_info']
            /\ cross_pc' = "returned"
    /\ UNCHANGED <<race_loaded, odds_info>>
    /\ UNCHANGED outside_cross

\* process_race_id returns the merged race, or logs the exception and
\* returns None; the next race is processed.
process_race_id_returns ==
    /\ cross_pc \in {"returned", "raised"}
    /\ race_loaded' = [race_id |-> 1]
    /\ race_info' = [race_id |-> 1]
    /\ odds_info' = <<>>
    /\ merged' = [error |-> "none"]
    /\ cross_pc' = "start"
    /\ UNCHANGED outside_cross

CrossInit ==
    /\ WorkflowIdle
    /\ KeyIdle
    /\ PoolIdle
    /\ StoreIdle
    /\ SaveIdle
    /\ race_loaded = [race_id |-> 1]
    /\ race_info = [race_id |-> 1]
    /\ odds_info = <<>>
    /\ merged = [error |-> "none"]
    /\ cross_pc = "start"

CrossNext ==
    \/ \E loaded_race \in Races : \E loaded_odds \in OddsLists :
           load_race_and_odds(loaded_race, loaded_odds)
    \/ merge_race_and_odds
    \/ process_race_id_returns

CrossSpec == CrossInit /\ [][CrossNext]_vars

(***************************************************************************)
(* Vocabulary of the merge's properties.                                   *)
(***************************************************************************)
MergeRaceReturned == cross_pc = "returned"

\* The entry has a value for the join key.
HasJoinKey(entry) == "id" \in DOMAIN entry

\* The odds items with the join-key value of the entry.
Matching(entry, items) ==
    {k \in 1..Len(items) :
        "id" \in DOMAIN items[k] /\ items[k].id = entry.id}

\* d is the shallow union of the entry and the item, the item's values
\* where both have the field.
IsUnion(d, entry, item) ==
    /\ DOMAIN d = DOMAIN entry \cup DOMAIN item
    /\ \A key \in DOMAIN item : d[key] = item[key]
    /\ \A key \in DOMAIN entry \ DOMAIN item : d[key] = entry[key]

(***************************************************************************)
(* C20.  The merged entry list has, in the order of the race_info's entry list, *)
(* one entry for each entry that has a join-key value ('id'): the shallow  *)
(* union of the entry and an odds item with the same id, the item's values *)
(* where both have a field, or the entry unchanged if no odds item has its *)
(* id.                                                                     *)
(***************************************************************************)
C20_EntriesMerged ==
    MergeRaceReturned =>
        LET with_key == SelectSeq(race_loaded.entry, HasJoinKey)
            out == merged.race.entry
        IN  /\ Len(out) = Len(with_key)
            /\ \A k \in 1..Len(with_key) :
                   IF Matching(with_key[k], odds_info) = {}
                   THEN out[k] = with_key[k]
                   ELSE \E m \in Matching(with_key[k], odds_info) :
                            IsUnion(out[k], with_key[k], odds_info[m])

(***************************************************************************)
(* C21.  The merge raises its error for the missing entry list exactly     *)
(* when the race has no 'entry' field; a race whose entry list is empty is *)
(* merged into a race with an empty entry list; and the entries without    *)
(* an 'id' are left out of the merged list while the merge still returns.  *)
(***************************************************************************)
MergeRaceRaised == cross_pc = "raised"

C21_MissingEntryList ==
    /\ MergeRaceRaised =>
           /\ "entry" \notin DOMAIN race_loaded
           /\ merged.error = "ValueError"
    /\ MergeRaceReturned =>
           /\ "entry" \in DOMAIN race_loaded
           /\ merged.error = "none"
           /\ race_loaded.entry = <<>> => merged.race.entry = <<>>
           /\ \A k \in 1..Len(merged.race.entry) :
                  HasJoinKey(merged.race.entry[k])
           /\ Len(merged.race.entry)
                  <= Len(SelectSeq(race_loaded.entry, HasJoinKey))

\* An entry without id has been dropped and the one with an id merged.
C21_Witness ==
    /\ MergeRaceReturned
    /\ race_loaded.entry = <<[a |-> "x"], [id |-> 1, a |-> "y"]>>
    /\ odds_info = <<[id |-> 1, b |-> "z"]>>
    /\ merged.race.entry = <<[id |-> 1, a |-> "y", b |-> "z"]>>

(***************************************************************************)
(* C22.  As stated: the merge leaves the race and the odds it was given    *)
(* as they were, the race's entry list after the call is the one it had    *)
(* before.                                                                 *)
(***************************************************************************)
MergeReturns == cross_pc = "loaded" /\ cross_pc' = "returned"

C22_RecordsImmutable ==
    [][MergeReturns => race_info' = race_info /\ odds_info' = odds_info]_vars

(***************************************************************************)
(* C22, amended.  The merge leaves the odds as they were; the race it was  *)
(* given is the record it returns: its entry list is replaced by the       *)
(* merged list and its other fields are as they were.                      *)
(***************************************************************************)
C22_EntryListReplaced ==
    [][MergeReturns =>
          /\ odds_info' = odds_info
          /\ merged'.race = race_info'
          /\ DOMAIN race_info' = DOMAIN race_info
          /\ \A key \in DOMAIN race_info \ {"entry"} :
                 race_info'[key] = race_info[key]
          /\ race_info'.entry = MergedEntries(race_info.entry, odds_info)
          /\ race_loaded' = race_info]_vars

\* The race that was loaded is no longer what it was.
C22_Witness ==
    /\ MergeRaceReturned
    /\ race_loaded.entry = <<[id |-> 1, a |-> "x"], [a |-> "y"]>>
    /\ odds_info = <<[id |-> 1, b |-> "z"]>>
    /\ race_info.entry = <<[id |-> 1, a |-> "x", b |-> "z"]>>
    /\ merged.race = race_info

(***************************************************************************)
(*                                                                         *)
(* The stores of the collectors.                                           *)
(*                                                                         *)
(* src/keiba_scraper/run.py writes each chunk to the tables of             *)
(* /data/keiba.sqlite in one transaction (write_chunk_data, insert_data);  *)
(* src/scripts/keiba_scraper.py writes the races of each group to          *)
(* /data/race/<file_id>.parquet (collect_race).  What the pools fetch is   *)
(* an input here.  A run starts from what an earlier run stored.           *)
(*                                                                         *)
(***************************************************************************)
\* Most chunks (groups) of a run.
MaxChunks == 2

\* The keys of data_map in their order, three of the five.
TableNames == <<"race", "result", "odds">>

TableSet == {TableNames[k] : k \in 1..Len(TableNames)}

\* The row of a chunk in a table.
Row(chunk, table_name) == <<chunk, table_name>>

\* What fetch_chunk_data returns for a chunk: for each table a list of
\* rows, empty for the tables nothing was fetched for.
DataMap(chunk, filled) ==
    [table_name \in TableSet |->
        IF table_name \in filled THEN <<Row(chunk, table_name)>> ELSE <<>>]

\* The rows of the lists of a data_map.
RowsOf(dm) == {dm[table_name][1] : table_name \in
                  {t \in DOMAIN dm : dm[t] # <<>>}}

\* What an earlier run left in the database and in /data/race.
StoredRows == {{}, {Row(1, "race")}}

StoredFiles == [1..MaxChunks -> {"absent", "stored"}]

\* A line of the error log.
StoreError(what, chunk) == [what |-> what, chunk |-> chunk]

\* main of run.py up to process_chunks: the chunks of the argument.
main_begins(n) ==
    /\ store_pc = "start"
    /\ chunks_left' = [k \in 1..n |-> k]
    /\ stored_before' = [db |-> db_committed, race_file |-> race_file]
    /\ store_pc' = "chunks"
    /\ UNCHANGED <<db_committed, db_pending, race_file, chunk_before,
                   data_map, table_at, store_log, exit_status>>
    /\ UNCHANGED outside_store

\* process_single_chunk: data_map = fetch_chunk_data(ids, logger)
fetch_chunk_data(filled) ==
    /\ store_pc = "chunks"
    /\ chunks_left # <<>>
    /\ data_map' = DataMap(Head(chunks_left), filled)
    /\ table_at' = 1
    /\ chunk_before' = db_committed
    /\ store_pc' = "writing"
    /\ UNCHANGED <<db_committed, db_pending, race_file, stored_before,
                   chunks_left, store_log, exit_status>>
    /\ UNCHANGED outside_store

\* A failed insert after which nothing is rolled back.
InsertFailedNoRollback(chunk) ==
    /\ db_committed' = db_committed
    /\ db_pending' = db_pending
    /\ store_log' = store_log \cup {StoreError("insert", chunk)}
    /\ chunks_left' = Tail(chunks_left)
    /\ store_pc' = "chunks"
    /\ UNCHANGED table_at

\* insert_data raises: conn.rollback(), the error is logged and raised
\* again; write_chunk_data logs it and rolls back; the chunk is over.
InsertFailed(chunk) ==
    /\ db_committed' = db_committed
    /\ db_pending' = {}
    /\ store_log' = store_log \cup {StoreError("insert", chunk)}
    /\ chunks_left' = Tail(chunks_left)
    /\ store_pc' = "chunks"
    /\ UNCHANGED table_at

\* write_chunk_data, one table of data_map.items(): insert_data for a
\* dataset that is not empty (INSERT OR IGNORE of its rows in the open
\* transaction).
insert_data(outcome) ==
    /\ store_pc = "writing"
    /\ table_at <= Len(TableNames)
    /\ LET dataset == data_map[TableNames[table_at]]
       IN  IF dataset = <<>>
           THEN /\ outcome = "ok"
                /\ table_at' = table_at + 1
                /\ UNCHANGED <<db_committed, db_pending, store_log,
                               chunks_left, store_pc>>
           ELSE IF outcome = "ok"
           THEN /\ db_pending' = db_pending \cup
                       ({dataset[k] : k \in 1..Len(dataset)} \ db_committed)
                /\ table_at' = table_at + 1
                /\ UNCHANGED <<db_committed, store_log, chunks_left,
                               store_pc>>
           ELSE InsertFailed(Head(chunks_left))
    /\ UNCHANGED <<race_file, stored_before, chunk_before, data_map,
                   exit_status>>
    /\ UNCHANGED outside_store

\* write_chunk_data after the loop: conn.commit(); if it raises, the error
\* is logged and the transaction rolled back.
commit(outcome) ==
    /\ store_pc = "writing"
    /\ table_at > Len(TableNames)
    /\ IF outcome = "ok"
       THEN /\ db_committed' = db_committed \cup db_pending
            /\ UNCHANGED store_log
       ELSE /\ db_committed' = db_committed
            /\ store_log' =
                   store_log \cup {StoreError("commit", Head(chunks_left))}
    /\ db_pending' = {}
    /\ chunks_left' = Tail(chunks_left)
    /\ store_pc' = "chunks"
    /\ UNCHANGED <<race_file, stored_before, chunk_before, data_map,
                   table_at, exit_status>>
    /\ UNCHANGED outside_store

\* process_chunks has gone through the chunks; main closes the connection
\* and the process ends.
main_ends ==
    /\ store_pc = "chunks"
    /\ chunks_left = <<>>
    /\ exit_status' = 0
    /\ store_pc' = "exited"
    /\ UNCHANGED <<db_committed, db_pending, race_file, stored_before,
                   chunk_before, chunks_left, data_map, table_at, store_log>>
    /\ UNCHANGED outside_store

\* main of scripts/keiba_scraper.py up to the loop over the groups.
scripts_main_begins(n) ==
    /\ store_pc = "start"
    /\ chunks_left' = [k \in 1..n |-> k]
    /\ stored_before' = [db |-> db_committed, race_file |-> race_file]
    /\ store_pc' = "groups"
    /\ UNCHANGED <<db_committed, db_pending, race_file, chunk_before,
                   data_map, table_at, store_log, exit_status>>
    /\ UNCHANGED outside_store

\* What a pq.write_table(table, race_path) that raises leaves at race_path:
\* the file that was there, or the beginning of the new one.
FailedWriteTable(file) == {file, "partial"}

\* collect_race after its pool: with races, pq.write_table(table,
\* race_path), an exception of which is logged; without, a warning.
\* collect_race returns the horse ids either way.
collect_race_saves(has_races, outcome) ==
    /\ store_pc = "groups"
    /\ chunks_left # <<>>
    /\ LET file_id == Head(chunks_left)
       IN  IF ~has_races
           THEN /\ outcome = "ok"
                /\ UNCHANGED <<race_file, store_log>>
           ELSE IF outcome = "ok"
           THEN /\ race_file' = [race_file EXCEPT ![file_id] = "written"]
                /\ UNCHANGED store_log
           ELSE /\ \E left \in FailedWriteTable(race_file[file_id]) :
                       race_file' = [race_file EXCEPT ![file_id] = left]
                /\ store_log' =
                       store_log \cup {StoreError("write_table", file_id)}
    /\ chunks_left' = Tail(chunks_left)
    /\ UNCHANGED <<db_committed, db_pending, stored_before, chunk_before,
                   data_map, table_at, store_pc, exit_status>>
    /\ UNCHANGED outside_store

\* main has gone through the groups (collect_horse follows) and returns.
scripts_main_ends ==
    /\ store_pc = "groups"
    /\ chunks_left = <<>>
    /\ exit_status' = 0
    /\ store_pc' = "exited"
    /\ UNCHANGED <<db_committed, db_pending, race_file, stored_before,
                   chunk_before, chunks_left, data_map, table_at, store_log>>
    /\ UNCHANGED outside_store

StoreInit ==
    /\ WorkflowIdle
    /\ KeyIdle
    /\ PoolIdle
    /\ CrossIdle
    /\ SaveIdle
    /\ db_committed \in StoredRows
    /\ db_pending = {}
    /\ race_file \in StoredFiles
    /\ stored_before = [db |-> db_committed, race_file |-> race_file]
    /\ chunk_before = db_committed
    /\ chunks_left = <<>>
    /\ data_map = DataMap(1, {})
    /\ table_at = 0
    /\ store_log = {}
    /\ store_pc = "start"
    /\ exit_status = 0

StoreNext ==
    \/ \E n \in 1..MaxChunks : main_begins(n)
    \/ \E filled \in SUBSET TableSet : fetch_chunk_data(filled)
    \/ \E outcome \in {"ok", "error"} : insert_data(outcome)
    \/ \E outcome \in {"ok", "error"} : commit(outcome)
    \/ main_ends
    \/ \E n \in 1..MaxChunks : scripts_main_begins(n)
    \/ \E has_races \in BOOLEAN : \E outcome \in {"ok", "error"} :
           collect_race_saves(has_races, outcome)
    \/ scripts_main_ends

StoreSpec == StoreInit /\ [][StoreNext]_vars

(***************************************************************************)
(* Vocabulary of the stores' properties.                                   *)
(***************************************************************************)
\* write_chunk_data has returned for the chunk of data_map.
ChunkWritten == store_pc \in {"chunks", "exited"} /\ table_at > 0

\* The run has ended after a write to its store failed.
EndedAfterStoreFailure == store_pc = "exited" /\ store_log # {}

(***************************************************************************)
(* C23.  A run in which a write to the store fails (the Parquet file of a  *)
(* group, the rows of a chunk) ends with an exit status other than 0 and   *)
(* with the store as it was before the write that failed.                  *)
(***************************************************************************)
C23_StoreFailureIsFatal ==
    EndedAfterStoreFailure =>
        /\ exit_status # 0
        /\ stored_before.db \subseteq db_committed
        /\ \A e \in store_log :
               e.what = "write_table" =>
                   race_file[e.chunk] = stored_before.race_file[e.chunk]

(***************************************************************************)
(* C25.  write_chunk_data commits once, after the inserts of all tables of *)
(* the chunk: until then the committed rows are those of the chunk's       *)
(* start; when it has returned, either the rows of all tables of the chunk *)
(* are committed (no error was logged for the chunk) or none of them was   *)
(* added and nothing is left in the transaction (an error was logged).     *)
(* Rows committed before stay committed, and after a chunk that failed the *)
(* loop goes on with the chunks that are left.                             *)
(***************************************************************************)
C25_ChunkAllOrNothing ==
    /\ [](store_pc = "writing" => db_committed = chunk_before)
    /\ [](ChunkWritten =>
             /\ db_pending = {}
             /\ \/ db_committed = chunk_before \cup RowsOf(data_map)
                \/ db_committed = chunk_before)
    /\ [](chunk_before \subseteq db_committed
             /\ stored_before.db \subseteq chunk_before)
    /\ [][store_pc = "writing" /\ store_pc' = "chunks" =>
             /\ db_pending' = {}
             /\ chunks_left' = Tail(chunks_left)
             /\ IF store_log' = store_log
                THEN db_committed' = chunk_before \cup RowsOf(data_map)
                ELSE db_committed' = chunk_before]_vars

\* The first of two chunks failed at an insert and the second was
\* committed.
C25_Witness ==
    /\ store_pc = "exited"
    /\ store_log = {StoreError("insert", 1)}
    /\ RowsOf(data_map) = {Row(2, "race"), Row(2, "odds")}
    /\ db_committed = {Row(2, "race"), Row(2, "odds")}

(***************************************************************************)
(*                                                                         *)
(* save_data of the sagikoza scripts.                                      *)
(*                                                                         *)
(* src/sagikoza_fetch/run.py, src/sagikoza_collector/run.py and            *)
(* src/sagikoza/run.py fetch the rows of a year and save them to           *)
(* sagikoza.parquet, each script to the file of its own data directory.    *)
(* The writes are taken to succeed.                                        *)
(*                                                                         *)
(***************************************************************************)
\* Most rows fetched by one run, most rows fetched by all runs.
MaxFetched == 2
MaxFetchedInAll == 4

Scripts == {"sagikoza_fetch", "sagikoza_collector", "sagikoza"}

\* pd.DataFrame(sagikoza.fetch(year)): the rows of a year.
DataFrames == SeqsUpTo({1, 2}, MaxFetched)

\* A Parquet file with its rows, or no file.
NoFile == [exists |-> FALSE, rows |-> <<>>]

ParquetFile(rows) == [exists |-> TRUE, rows |-> rows]

\* pq.ParquetWriter(output_file, table.schema, ...) opens output_file for
\* writing, which empties it; writer.write_table(table) writes the table.
ParquetWriterWrites(file, table) == ParquetFile(table)

\* pd.concat([pd.read_parquet(output_file), df], ignore_index=True)
\*     .to_parquet(output_file, index=False)
ConcatToParquet(file, table) == ParquetFile(file.rows \o table)

\* pq.write_table(table, output_file) / df.to_parquet(output_file) when no
\* file exists.
WriteNew(table) == ParquetFile(table)

\* save_data(df, output_file) of the script.
SaveData(which, file, table) ==
    IF ~file.exists THEN WriteNew(table)
    ELSE IF which = "sagikoza_fetch" THEN ParquetWriterWrites(file, table)
    ELSE ConcatToParquet(file, table)

\* main: df = fetch_data(year)
fetch_data(data) ==
    /\ save_pc = "start"
    /\ Len(fetched) + Len(data) <= MaxFetchedInAll
    /\ df' = data
    /\ fetched' = fetched \o data
    /\ file_before' = output_file
    /\ save_pc' = "fetched"
    /\ UNCHANGED <<script, output_file>>
    /\ UNCHANGED outside_save

\* main: save_data(df, output_file)
save_data ==
    /\ save_pc = "fetched"
    /\ output_file' = SaveData(script, output_file, df)
    /\ save_pc' = "saved"
    /\ UNCHANGED <<script, file_before, df, fetched>>
    /\ UNCHANGED outside_save

\* The script ends; its next run finds the file it left.
save_exit ==
    /\ save_pc = "saved"
    /\ save_pc' = "start"
    /\ UNCHANGED <<script, output_file, file_before, df, fetched>>
    /\ UNCHANGED outside_save

SaveInit ==
    /\ WorkflowIdle
    /\ KeyIdle
    /\ PoolIdle
    /\ CrossIdle
    /\ StoreIdle
    /\ script \in Scripts
    /\ output_file = NoFile
    /\ file_before = NoFile
    /\ df = <<>>
    /\ fetched = <<>>
    /\ save_pc = "start"

SaveNext ==
    \/ \E data \in DataFrames : fetch_data(data)
    \/ save_data
    \/ save_exit

SaveSpec == SaveInit /\ [][SaveNext]_vars

(***************************************************************************)
(* C24.  After save_data the file holds the rows it held before the call   *)
(* followed by the rows of df, or just the rows of df if there was no      *)
(* file; over the runs of a script the number of rows stored is the        *)
(* number of rows fetched.                                                 *)
(***************************************************************************)
SaveDataReturned == save_pc = "saved"

C24_SaveAppends ==
    SaveDataReturned =>
        /\ output_file.exists
        /\ output_file.rows =
               IF file_before.exists THEN file_before.rows \o df ELSE df
        /\ Len(output_file.rows) = Len(fetched)

(***************************************************************************)
(* C26.  The merge of the corporate register workflow, run again with the  *)
(* same new snapshot on the master that the previous merge of that         *)
(* snapshot produced, leaves the master's rows as they were, whatever the  *)
(* snapshot, rows with a missing update_date included.                     *)
(***************************************************************************)
\* The rows are those of a master that a merge of the snapshot produced
\* (from no base, or from the base made of the first rows), whatever the
\* enrichment has filled in since.
ProducedByMerging(rows, new) ==
    \E k \in 0..Len(rows) :
        RawSeq(rows) = RawSeq(MergeResult(new, SubSeq(rows, 1, k)))

C26_RepeatedMergeKeepsMaster ==
    (MergedOntoBase /\ ProducedByMerging(last.pre_base.rows, last.new)) =>
        Master = last.pre_base.rows

====
